---- MODULE Spec2Model ----
(***************************************************************************)
(* Model of the image-generation pipeline of miami-reunion-app.            *)
(*                                                                         *)
(* Part 1: the App component (App.tsx, the later of the two copies in      *)
(* src/unnamed/part_000, lines 834-1145): the two-worker batch of          *)
(* handleGenerateClick, handleRegenerateStyle, handleReset and             *)
(* handleImageUpload.  The earlier copy (lines 281-523) has the same       *)
(* control flow and differs only in the error message it records.          *)
(*                                                                         *)
(* Part 2: ImageGenerationService.selectOptimalProvider                    *)
(* (ImageGenerationService.ts, src/unnamed/part_002, lines 134-355).        *)
(*                                                                         *)
(* Part 3: WebhookService (src/src/services/WebhookService.ts): emit,      *)
(* emitBatch, the failed-webhook queue and the periodic retry sweep.       *)
(*                                                                         *)
(* Part 4: ServiceManager.generateImageWithCommerce with the providers'    *)
(* generateImage / enhanceForCommerce and ImageProcessingService           *)
(* (src/unnamed/part_002) and PrintfulCommerceService.createProductsForImage*)
(* (src/unnamed/part_004).                                                 *)
(*                                                                         *)
(* Part 5: the rest of the public interface of WebhookService:             *)
(* testWebhook, setEnabled / isEnabled and retryFailedWebhooks.            *)
(*                                                                         *)
(* Part 6: the startTime field of the providers and the generationTime     *)
(* they report (src/unnamed/part_002, lines 34-285).                       *)
(*                                                                         *)
(* Part 7: saveGeneratedImage and the imagesGenerated field of the user's  *)
(* document (firebaseService.ts, src/unnamed/part_004, lines 70-134).      *)
(*                                                                         *)
(* The JavaScript runtime is single-threaded: a handler or a promise       *)
(* continuation runs to its next await without interruption, and the       *)
(* promise continuations that are ready (microtasks) run before the next   *)
(* user event or network completion (macrotasks).                          *)
(***************************************************************************)
EXTENDS Integers, Sequences, FiniteSets, TLC

\* ---------------------------------------------------------------- bounds
NumStyles == 3      \* number of style keys in MIAMI_STYLES_KEYS
MaxPhotos == 2      \* number of photos uploaded in one run
MaxRegens == 1      \* number of generations started by handleRegenerateStyle in one run
MaxEvents == 2      \* number of AutomationEvents passed to emit / emitBatch in one run
MaxCalls == 2       \* number of generateImage calls made on the provider instances
MaxClock == 4       \* the last value of Date.now() in the provider model
MaxSaves == 3       \* number of saveGeneratedImage calls made for the user

\* ------------------------------------------------------ program constants
ConcurrencyLimit == 2
maxRetries == 3             \* WebhookService.maxRetries
retryDelay == 5000          \* WebhookService.retryDelay, in ms
SweepInterval == 30000      \* the period of the setInterval of startRetryProcessor, in ms

Styles == 1..NumStyles
MIAMI_STYLES_KEYS == [i \in 1..NumStyles |-> i]
RegenIds == 1..MaxRegens

\* ------------------------------------------------------------- strings
\* A text is a sequence of pieces; String.prototype.includes is the search
\* for a contiguous run of pieces.
Includes(text, pat) ==
    \E i \in 1..(Len(text) - Len(pat) + 1) :
        SubSeq(text, i, i + Len(pat) - 1) = pat

\* What generateMiamiImage rejects with here: an Error of the backend, or the
\* Error fetch raises when the network fails.
ErrBlocked == [isError |-> TRUE,  message |-> <<"Content blocked">>]
ErrFetch   == [isError |-> TRUE,  message |-> <<"TypeError: ", "Failed to fetch">>]
Errors == {ErrBlocked, ErrFetch}

UnknownErrorMessage == <<"An unknown error occurred.">>
NetworkMessage ==
    <<"Network connection issue. Please check your internet and try again.">>

\* err instanceof Error ? err.message : "An unknown error occurred."
ErrorMessage(err) == IF err.isError THEN err.message ELSE UnknownErrorMessage

\* The message of the thrown error, unchanged (the earlier copy of App.tsx).
UserMessage_Raw(err) == ErrorMessage(err)

\* The message recorded in the result map.
UserMessage(err) ==
    IF \/ Includes(ErrorMessage(err), <<"Failed to fetch">>)
       \/ Includes(ErrorMessage(err), <<"QUIC_PROTOCOL_ERROR">>)
    THEN NetworkMessage
    ELSE ErrorMessage(err)

\* ------------------------------------------------------- result entries
NoUrl == <<>>
NoError == <<>>
\* The URL a generation call returns names the photo and the style it was
\* made from.
Url(photo, style) == <<photo, style>>

Absent       == [status |-> "absent",  url |-> NoUrl, error |-> NoError]
Pending      == [status |-> "pending", url |-> NoUrl, error |-> NoError]
DoneEntry(u) == [status |-> "done",    url |-> u,     error |-> NoError]
ErrorEntry(m) == [status |-> "error",  url |-> NoUrl, error |-> m]

EmptyMap == [s \in Styles |-> Absent]

\* setGeneratedImages(prev => ({ ...prev })) with the one key dropped: a
\* write that forgets the spread.
SetEntry_NoSpread(map, s, e) == [t \in Styles |-> IF t = s THEN e ELSE Absent]

\* setGeneratedImages(prev => ({ ...prev, [styleKey]: e }))
SetEntry(map, s, e) == [map EXCEPT ![s] = e]

VARIABLES
    appState,           \* 'name-entry' | 'idle' | 'image-uploaded' | 'generating' | 'results-shown'
    uploadedImage,      \* 0 (null) or the number of the uploaded photo
    generatedImages,    \* the result map: style -> entry
    savedToGallery,     \* style -> "unset" | TRUE | FALSE
    isLoading,
    firebaseEnabled,
    userSessionId,      \* 0 (null) or 1
    frontCardIndex,
    stylesQueue,        \* the queue of the running batch
    worker,             \* worker -> [pc, style, photo]
    batchActive,        \* handleGenerateClick is awaiting Promise.all(workers)
    regen,              \* regenerate call -> [pc, style, photo]
    photoCount,         \* photos uploaded so far
    \* history of the current batch
    calls,              \* style -> number of generation calls the batch made for it
    startOrder,         \* styles in the order the batch started them
    batchResult,        \* style -> how its batch call ended: [kind, error]
    batchWrites,        \* style -> number of results the batch wrote for it
    unsettledAtComplete \* the styles that were not 'done' or 'error' when the
                        \* batch-complete signal was issued; {0} before the signal

appVars == <<appState, uploadedImage, generatedImages, savedToGallery, isLoading,
             firebaseEnabled, userSessionId, frontCardIndex, stylesQueue, worker,
             batchActive, regen, photoCount, calls, startOrder, batchResult,
             batchWrites, unsettledAtComplete>>

VARIABLES
    selPrompt,          \* the prompt argument of selectOptimalProvider
    selStyleName,       \* the styleName argument
    geminiKey,          \* import.meta.env.VITE_GEMINI_API_KEY is set
    falKey,             \* import.meta.env.VITE_FAL_AI_KEY is set
    falPc,              \* ByteDanceSeedreamProvider.initializeFal: "importing" | "done"
    falClient,          \* ByteDanceSeedreamProvider.fal is set
    selPc,              \* where selectOptimalProvider stands
    selIndex,           \* the position of its loop over the providers
    selResult           \* the provider it returned, or "none"

selVars == <<selPrompt, selStyleName, geminiKey, falKey, falPc, falClient, selPc,
             selIndex, selResult>>

VARIABLES
    webhookUrl,         \* WebhookService.webhookUrl is not empty
    failedQueue,        \* the keys of WebhookService.failedQueue, in insertion order
    items,              \* event -> the WebhookQueueItem made for it, or NoItem
    isProcessingQueue,  \* WebhookService.isProcessingQueue
    stats,              \* WebhookService.stats
    emits,              \* event -> where the emit call for it stands
    hookBatch,          \* the emitBatch call: its events and where it stands
    sweep,              \* the running pass of processRetryQueue: itemsToRetry and position
    untilTick,          \* ms until the next tick of the retry timer
    sends,              \* event -> number of sendWebhook calls made for it
    delays              \* event -> the delays (nextRetry - now) scheduled for its item

hookVars == <<webhookUrl, failedQueue, items, isProcessingQueue, stats, emits,
              hookBatch, sweep, untilTick, sends, delays>>

VARIABLES
    printfulKey,        \* import.meta.env.VITE_PRINTFUL_API_KEY is set
    gwcPc,              \* where generateImageWithCommerce stands
    gwcProvider,        \* the provider selected by ImageGenerationService.generateImage
    gwcImage,           \* the GeneratedImageOutput, or NoImage
    gwcProcessing,      \* what happened inside processImageForCommerce
    gwcError            \* the error the call rejected with, or NoGwcError

gwcVars == <<printfulKey, gwcPc, gwcProvider, gwcImage, gwcProcessing, gwcError>>

VARIABLES
    enabled,            \* WebhookService.enabled, the flag of setEnabled
    testCall,           \* the testWebhook() call: its event, where it stands, its result
    manual              \* the pass of processRetryQueue run by retryFailedWebhooks()

apiVars == <<enabled, testCall, manual>>

VARIABLES
    now,                \* Date.now(), in steps of the provider model
    startTime,          \* provider -> its field startTime
    genCall,            \* call -> a generateImage call on a provider instance
    imagesGenerated,    \* the field imagesGenerated of the user's document
    saveCall            \* call -> a saveGeneratedImage call for the user

backendVars == <<now, startTime, genCall, imagesGenerated, saveCall>>

svcVars == <<hookVars, gwcVars, apiVars, backendVars>>

vars == <<appVars, selVars, svcVars>>

\* A pool with one worker more than concurrencyLimit.
WorkerIds_OneMore == 1..(ConcurrencyLimit + 1)

\* Array(concurrencyLimit).fill(null).map(...): the workers of a batch.
WorkerIds == 1..ConcurrencyLimit

NoErr == [isError |-> FALSE, message |-> <<>>]
NoResult == [kind |-> "none", error |-> NoErr]
OkResult == [kind |-> "ok", error |-> NoErr]
Rejected(err) == [kind |-> "rejected", error |-> err]
NoSignal == {0}

IdleWorker == [pc |-> "none", style |-> 0, photo |-> 0]
UnusedRegen == [pc |-> "unused", style |-> 0, photo |-> 0]
FinishedRegen == [pc |-> "finished", style |-> 0, photo |-> 0]

Status(s) == generatedImages[s].status

\* Promise.race in place of Promise.all: the first worker to exit ends the wait.
WorkersJoined_Race == \E w \in WorkerIds : worker[w].pc = "exited"

\* Promise.all(workers) is fulfilled: every worker's async function returned.
WorkersJoined == \A w \in WorkerIds : worker[w].pc = "exited"

\* A promise continuation is ready to run: it runs before any user event or
\* network completion.
MicrotaskPending ==
    \/ \E w \in WorkerIds : worker[w].pc = "loop"
    \/ batchActive /\ WorkersJoined

\* stylesQueue.shift() that leaves the element in the queue.
Shift_Peek(q) == [head |-> Head(q), rest |-> q]

\* stylesQueue.shift()
Shift(q) == [head |-> Head(q), rest |-> Tail(q)]

\* ---------------------------------------------------------------- Init
AppInit ==
    /\ appState = "name-entry"
    /\ uploadedImage = 0
    /\ generatedImages = EmptyMap
    /\ savedToGallery = [s \in Styles |-> "unset"]
    /\ isLoading = FALSE
    /\ firebaseEnabled \in BOOLEAN
    /\ userSessionId = 0
    /\ frontCardIndex = -1
    /\ stylesQueue = <<>>
    /\ worker = [w \in WorkerIds |-> IdleWorker]
    /\ batchActive = FALSE
    /\ regen = [r \in RegenIds |-> UnusedRegen]
    /\ photoCount = 0
    /\ calls = [s \in Styles |-> 0]
    /\ startOrder = <<>>
    /\ batchResult = [s \in Styles |-> NoResult]
    /\ batchWrites = [s \in Styles |-> 0]
    /\ unsettledAtComplete = NoSignal



\* ------------------------------------------------------------ the batch
\* The state a worker's loop acts on.
BatchState == [queue |-> stylesQueue, worker |-> worker, calls |-> calls,
               startOrder |-> startOrder]

\* A worker whose rejected processStyle is not caught: its promise rejects
\* and the worker never reaches the loop again.
PcAfterCatch_Uncaught == "failed"

\* processStyle catches every rejection: the worker returns to its loop.
PcAfterCatch == "loop"

\* One turn of `while (stylesQueue.length > 0) { shift(); await processStyle() }`
\* up to the await inside generateMiamiImage, or the exit of the loop.
LoopStep(w, bs) ==
    IF Len(bs.queue) > 0
    THEN LET sh == Shift(bs.queue)
             s  == sh.head
         IN  [queue      |-> sh.rest,
              worker     |-> [bs.worker EXCEPT ![w].pc = "gen", ![w].style = s],
              calls      |-> [bs.calls EXCEPT ![s] = @ + 1],
              startOrder |-> Append(bs.startOrder, s)]
    ELSE [bs EXCEPT !.worker[w].pc = "exited", !.worker[w].style = 0]

\* Array(concurrencyLimit).fill(null).map(async () => ...): the workers are
\* started one after the other, each running up to its first await.
RECURSIVE SpawnWorkers(_, _)
SpawnWorkers(w, bs) ==
    IF w \notin WorkerIds THEN bs ELSE SpawnWorkers(w + 1, LoopStep(w, bs))

SetBatchState(bs) ==
    /\ stylesQueue' = bs.queue
    /\ worker' = bs.worker
    /\ calls' = bs.calls
    /\ startOrder' = bs.startOrder

\* The history of a batch ends with the batch.
ClearHistory ==
    /\ calls' = [s \in Styles |-> 0]
    /\ startOrder' = <<>>
    /\ batchResult' = [s \in Styles |-> NoResult]
    /\ batchWrites' = [s \in Styles |-> 0]

\* handleMemberSubmit
NameSubmit ==
    /\ appState = "name-entry"
    /\ \E session \in {0, 1} :
          userSessionId' = IF firebaseEnabled THEN session ELSE 0
    /\ appState' = "idle"
    /\ UNCHANGED <<selVars, svcVars>>
    /\ UNCHANGED <<uploadedImage, generatedImages, savedToGallery, isLoading,
                   firebaseEnabled, frontCardIndex, stylesQueue, worker, batchActive,
                   regen, photoCount, calls, startOrder, batchResult,
                   batchWrites, unsettledAtComplete>>

\* handleImageUpload and its reader.onloadend; the file input is rendered in
\* the 'idle' state only.
ImageUpload ==
    /\ ~MicrotaskPending
    /\ appState = "idle"
    /\ photoCount < MaxPhotos
    /\ photoCount' = photoCount + 1
    /\ uploadedImage' = photoCount + 1
    /\ appState' = "image-uploaded"
    /\ generatedImages' = EmptyMap
    /\ savedToGallery' = [s \in Styles |-> "unset"]
    /\ UNCHANGED <<selVars, svcVars>>
    /\ UNCHANGED <<isLoading, firebaseEnabled, userSessionId, frontCardIndex,
                   stylesQueue, worker, batchActive, regen, calls,
                   startOrder, batchResult, batchWrites, unsettledAtComplete>>

\* handleGenerateClick up to `await Promise.all(workers)`; the button is
\* rendered in the 'image-uploaded' state only.
GenerateClick ==
    /\ ~MicrotaskPending
    /\ appState = "image-uploaded"
    /\ uploadedImage # 0
    /\ isLoading' = TRUE
    /\ appState' = "generating"
    /\ generatedImages' = [s \in Styles |-> Pending]
    /\ SetBatchState(SpawnWorkers(1,
          [queue      |-> MIAMI_STYLES_KEYS,
           worker     |-> [w \in WorkerIds |->
                             [pc |-> "loop", style |-> 0, photo |-> uploadedImage]],
           calls      |-> [s \in Styles |-> 0],
           startOrder |-> <<>>]))
    /\ batchActive' = TRUE
    /\ batchResult' = [s \in Styles |-> NoResult]
    /\ batchWrites' = [s \in Styles |-> 0]
    /\ unsettledAtComplete' = NoSignal
    /\ UNCHANGED <<selVars, svcVars>>
    /\ UNCHANGED <<uploadedImage, savedToGallery, firebaseEnabled, userSessionId,
                   frontCardIndex, regen, photoCount>>

\* processStyle: setGeneratedImages(done) and the return to the worker's loop.
RecordDone(w) ==
    LET s == worker[w].style IN
    /\ generatedImages' =
          SetEntry(generatedImages, s, DoneEntry(Url(worker[w].photo, s)))
    /\ batchWrites' = [batchWrites EXCEPT ![s] = @ + 1]
    /\ worker' = [worker EXCEPT ![w].pc = "loop"]

\* processStyle: generateMiamiImage resolved.
GenResolve(w) ==
    /\ ~MicrotaskPending
    /\ worker[w].pc = "gen"
    /\ batchResult' = [batchResult EXCEPT ![worker[w].style] = OkResult]
    /\ IF firebaseEnabled /\ userSessionId # 0
       THEN /\ worker' = [worker EXCEPT ![w].pc = "save"]
            /\ UNCHANGED <<generatedImages, batchWrites>>
       ELSE RecordDone(w)
    /\ UNCHANGED <<selVars, svcVars>>
    /\ UNCHANGED <<appState, uploadedImage, savedToGallery, isLoading,
                   firebaseEnabled, userSessionId, frontCardIndex, stylesQueue,
                   batchActive, regen, photoCount, calls, startOrder,
                   unsettledAtComplete>>

\* processStyle: saveGeneratedImage resolved or rejected (a rejection is
\* logged and changes nothing).
SaveSettle(w) ==
    /\ ~MicrotaskPending
    /\ worker[w].pc = "save"
    /\ RecordDone(w)
    /\ UNCHANGED <<selVars, svcVars>>
    /\ UNCHANGED <<appState, uploadedImage, savedToGallery, isLoading,
                   firebaseEnabled, userSessionId, frontCardIndex, stylesQueue,
                   batchActive, regen, photoCount, calls, startOrder,
                   batchResult, unsettledAtComplete>>

\* processStyle: generateMiamiImage rejected; the catch block.
GenReject(w) ==
    /\ ~MicrotaskPending
    /\ worker[w].pc = "gen"
    /\ \E err \in Errors :
          LET s == worker[w].style IN
          /\ generatedImages' =
                SetEntry(generatedImages, s, ErrorEntry(UserMessage(err)))
          /\ batchResult' = [batchResult EXCEPT ![s] = Rejected(err)]
          /\ batchWrites' = [batchWrites EXCEPT ![s] = @ + 1]
    /\ worker' = [worker EXCEPT ![w].pc = PcAfterCatch]
    /\ UNCHANGED <<selVars, svcVars>>
    /\ UNCHANGED <<appState, uploadedImage, savedToGallery, isLoading,
                   firebaseEnabled, userSessionId, frontCardIndex, stylesQueue,
                   batchActive, regen, photoCount, calls, startOrder,
                   unsettledAtComplete>>

\* The worker's loop after `await processStyle(styleKey)`.
WorkerLoop(w) ==
    /\ worker[w].pc = "loop"
    /\ SetBatchState(LoopStep(w, BatchState))
    /\ UNCHANGED <<selVars, svcVars>>
    /\ UNCHANGED <<appState, uploadedImage, generatedImages, savedToGallery,
                   isLoading, firebaseEnabled, userSessionId, frontCardIndex,
                   batchActive, regen, photoCount, batchResult, batchWrites,
                   unsettledAtComplete>>

\* handleGenerateClick after `await Promise.all(workers)`: the batch-complete
\* signal.
BatchComplete ==
    /\ batchActive
    /\ WorkersJoined
    /\ isLoading' = FALSE
    /\ appState' = "results-shown"
    /\ batchActive' = FALSE
    /\ unsettledAtComplete' = {s \in Styles : Status(s) \notin {"done", "error"}}
    /\ worker' = [w \in WorkerIds |-> IdleWorker]
    /\ ClearHistory
    /\ UNCHANGED <<selVars, svcVars>>
    /\ UNCHANGED <<uploadedImage, generatedImages, savedToGallery, firebaseEnabled,
                   userSessionId, frontCardIndex, stylesQueue, regen, photoCount>>

\* ------------------------------------------------------------ regenerate
FreeRegens == {r \in RegenIds : regen[r].pc = "unused"}
RegensInFlight(s) == {r \in RegenIds : regen[r].pc = "gen" /\ regen[r].style = s}

\* handleRegenerateStyle up to `await generateMiamiImage`; the cards are
\* rendered in the 'generating' and 'results-shown' states.
RegenerateStyle(s) ==
    /\ ~MicrotaskPending
    /\ appState \in {"generating", "results-shown"}
    /\ FreeRegens # {}
    /\ IF uploadedImage = 0 \/ Status(s) = "pending"
       THEN UNCHANGED <<generatedImages, savedToGallery, regen>>
       ELSE LET r == CHOOSE x \in FreeRegens : \A y \in FreeRegens : x <= y IN
            /\ generatedImages' = SetEntry(generatedImages, s, Pending)
            /\ savedToGallery' = [savedToGallery EXCEPT ![s] = FALSE]
            /\ regen' = [regen EXCEPT ![r] =
                            [pc |-> "gen", style |-> s, photo |-> uploadedImage]]
    /\ UNCHANGED <<selVars, svcVars>>
    /\ UNCHANGED <<appState, uploadedImage, isLoading, firebaseEnabled,
                   userSessionId, frontCardIndex, stylesQueue, worker, batchActive,
                   photoCount, calls, startOrder, batchResult, batchWrites,
                   unsettledAtComplete>>

\* handleRegenerateStyle: generateMiamiImage resolved.
RegenResolve(r) ==
    /\ ~MicrotaskPending
    /\ regen[r].pc = "gen"
    /\ generatedImages' = SetEntry(generatedImages, regen[r].style,
                                   DoneEntry(Url(regen[r].photo, regen[r].style)))
    /\ regen' = [regen EXCEPT ![r] = FinishedRegen]
    /\ UNCHANGED <<selVars, svcVars>>
    /\ UNCHANGED <<appState, uploadedImage, savedToGallery, isLoading,
                   firebaseEnabled, userSessionId, frontCardIndex, stylesQueue,
                   worker, batchActive, photoCount, calls, startOrder,
                   batchResult, batchWrites, unsettledAtComplete>>

\* handleRegenerateStyle: generateMiamiImage rejected; the catch block.
RegenReject(r) ==
    /\ ~MicrotaskPending
    /\ regen[r].pc = "gen"
    /\ \E err \in Errors :
          generatedImages' = SetEntry(generatedImages, regen[r].style,
                                      ErrorEntry(UserMessage(err)))
    /\ regen' = [regen EXCEPT ![r] = FinishedRegen]
    /\ UNCHANGED <<selVars, svcVars>>
    /\ UNCHANGED <<appState, uploadedImage, savedToGallery, isLoading,
                   firebaseEnabled, userSessionId, frontCardIndex, stylesQueue,
                   worker, batchActive, photoCount, calls, startOrder,
                   batchResult, batchWrites, unsettledAtComplete>>

\* handleReset; the buttons are rendered in the 'image-uploaded' and
\* 'results-shown' states.
Reset ==
    /\ ~MicrotaskPending
    /\ appState \in {"image-uploaded", "results-shown"}
    /\ uploadedImage' = 0
    /\ generatedImages' = EmptyMap
    /\ savedToGallery' = [s \in Styles |-> "unset"]
    /\ frontCardIndex' = -1
    /\ appState' = "idle"
    /\ unsettledAtComplete' = NoSignal
    /\ UNCHANGED <<selVars, svcVars>>
    /\ UNCHANGED <<isLoading, firebaseEnabled, userSessionId, stylesQueue, worker,
                   batchActive, regen, photoCount, calls, startOrder,
                   batchResult, batchWrites>>



\* ------------------------------------------------- provider selection
\* Texts of the selector are sequences of characters.
UpperToLower ==
    "A" :> "a" @@ "B" :> "b" @@ "C" :> "c" @@ "D" :> "d" @@ "E" :> "e" @@
    "F" :> "f" @@ "G" :> "g" @@ "H" :> "h" @@ "I" :> "i" @@ "J" :> "j" @@
    "K" :> "k" @@ "L" :> "l" @@ "M" :> "m" @@ "N" :> "n" @@ "O" :> "o" @@
    "P" :> "p" @@ "Q" :> "q" @@ "R" :> "r" @@ "S" :> "s" @@ "T" :> "t" @@
    "U" :> "u" @@ "V" :> "v" @@ "W" :> "w" @@ "X" :> "x" @@ "Y" :> "y" @@
    "Z" :> "z"

\* String.prototype.toLowerCase
ToLower(text) ==
    [i \in 1..Len(text) |->
        IF text[i] \in DOMAIN UpperToLower THEN UpperToLower[text[i]] ELSE text[i]]

partyKeywords == {
    <<"s", "t", "r", "i", "p", " ", "c", "l", "u", "b">>,
    <<"n", "i", "g", "h", "t", "l", "i", "f", "e">>,
    <<"c", "l", "u", "b">>,
    <<"p", "a", "r", "t", "y">>,
    <<"g", "i", "g", "o", "l", "o">>,
    <<"b", "e", "a", "c", "h">>,
    <<"c", "o", "c", "a", "i", "n", "e", " ", "c", "o", "w", "b", "o", "y">> }

professionalKeywords == {
    <<"d", "r", "u", "g", " ", "l", "o", "r", "d">>,
    <<"s", "u", "g", "a", "r", " ", "d", "a", "d", "d", "y">>,
    <<"b", "u", "s", "i", "n", "e", "s", "s">>,
    <<"e", "x", "e", "c", "u", "t", "i", "v", "e">> }

\* keywords.some(k => promptLower.includes(k) || styleNameLower.includes(k))
MatchesAny(keywords, prompt, styleName) ==
    \E k \in keywords :
        Includes(ToLower(prompt), k) \/ Includes(ToLower(styleName), k)

isPartyTheme == MatchesAny(partyKeywords, selPrompt, selStyleName)
isProfessionalTheme == MatchesAny(professionalKeywords, selPrompt, selStyleName)

\* The prompts and style names the selector is called with.
PromptBeachClub  == <<"M", "i", "a", "m", "i", " ", "B", "E", "A", "C", "H", " ", "c", "a", "b", "a", "n", "a">>
PromptExecutive  == <<"B", "u", "s", "i", "n", "e", "s", "s", " ", "s", "u", "i", "t">>
PromptNightclub  == <<"n", "i", "g", "h", "t", "c", "l", "u", "b", " ", "E", "x", "e", "c", "u", "t", "i", "v", "e">>
PromptPastel     == <<"p", "a", "s", "t", "e", "l", " ", "b", "l", "a", "z", "e", "r">>
Prompts == {PromptBeachClub, PromptExecutive, PromptNightclub, PromptPastel}

NameDrugLord     == <<"D", "r", "u", "g", " ", "L", "o", "r", "d">>
NameBeachGigolo  == <<"B", "e", "a", "c", "h", " ", "G", "i", "g", "o", "l", "o">>
NameVice         == <<"V", "i", "c", "e">>
StyleNames == {NameDrugLord, NameBeachGigolo, NameVice}

\* this.providers, in the order of the set() calls of the constructor
Providers == <<"gemini", "seedream">>
\* this.defaultProvider
DefaultProvider == "gemini"

\* GeminiProvider.isAvailable / ByteDanceSeedreamProvider.isAvailable
\* An isAvailable() of SeeDream that looks at the API key alone.
IsAvailable_KeyOnly(p) == IF p = "gemini" THEN geminiKey ELSE falKey

IsAvailable(p) == IF p = "gemini" THEN geminiKey ELSE falKey /\ falClient

\* The first branch without the availability probe.
PartyBranch_NoProbe == isPartyTheme

\* isPartyTheme && seedreamProvider && await seedreamProvider.isAvailable()
PartyBranch == isPartyTheme /\ IsAvailable("seedream")

\* isProfessionalTheme && geminiProvider && await geminiProvider.isAvailable()
ProfessionalBranch == isProfessionalTheme /\ IsAvailable("gemini")

\* A last resort that looks at no provider.
LoopProviders_None == <<>>

\* for (const [name, provider] of this.providers)
LoopProviders == Providers

\* ------------------------------------------------ services at rest
\* The AutomationEvents handed to the WebhookService.
Events == 1..MaxEvents
\* The events generateImageWithCommerce hands to the WebhookService.
ImageGeneratedEvent == 1        \* type 'image_generated'
ProductsCreatedEvent == 2       \* type 'products_created'

\* An optional field of an AutomationEvent that the caller left out.
NoValue == <<>>
\* The AutomationEvent that emitImageGenerated and emitProductsCreated build:
\* { type, data, userId: data.userId }, without eventId and timestamp.
AutomationEvent(e) ==
    [type      |-> IF e = ImageGeneratedEvent THEN "image_generated"
                   ELSE "products_created",
     userId    |-> <<"user", e>>,
     eventId   |-> NoValue,
     timestamp |-> NoValue]
\* generateEventId() in the n-th preparePayload of event e:
\* `evt_${Date.now()}_${Math.random()...}`, a value no other call returns.
GenerateEventId(e, n) == <<"evt", e, n>>
\* new Date().toISOString() in the n-th preparePayload of event e; a later
\* attempt is made at least retryDelay after the one before it.
IsoNow(e, n) == <<"date", e, n>>
\* preparePayload(event), the fields that identify the event
PreparePayload(event, e, n) ==
    [timestamp |-> IF event.timestamp # NoValue THEN event.timestamp
                   ELSE IsoNow(e, n),
     type      |-> event.type,
     eventId   |-> IF event.eventId # NoValue THEN event.eventId
                   ELSE GenerateEventId(e, n),
     userId    |-> event.userId]

\* No WebhookQueueItem was made for the event.
NoItem == [id |-> 0, attempts |-> 0, nextRetryIn |-> 0, maxRetries |-> 0]
\* No sweep pass is running.
IdleSweep == [pc |-> "idle", itemsToRetry |-> <<>>, index |-> 0]
\* emitBatch was not called.
NoBatch == [pc |-> "idle", events |-> {}]
\* No sendWebhook call was made for an event.
NoSends == [started |-> 0, outcomes |-> <<>>, payloads |-> <<>>]

\* testWebhook() was not called.
NoTest == [pc |-> "idle", event |-> 0, result |-> FALSE]
\* retryFailedWebhooks() is not running; returned is its last return value.
NoManual == [pc |-> "idle", itemsToRetry |-> <<>>, index |-> 0,
             initialCount |-> 0, returned |-> -1]

\* new WebhookService(): empty queue, flag down, zero statistics, the timer
\* of startRetryProcessor armed, enabled = true.
HookConstructed ==
    /\ enabled = TRUE
    /\ testCall = NoTest
    /\ manual = NoManual
    /\ failedQueue = <<>>
    /\ items = [e \in Events |-> NoItem]
    /\ isProcessingQueue = FALSE
    /\ stats = [totalSent |-> 0, totalFailed |-> 0, totalRetried |-> 0]
    /\ emits = [e \in Events |-> "unused"]
    /\ hookBatch = NoBatch
    /\ sweep = IdleSweep
    /\ untilTick = SweepInterval
    /\ sends = [e \in Events |-> NoSends]
    /\ delays = [e \in Events |-> <<>>]

HookQuiet == webhookUrl = FALSE /\ HookConstructed

\* No GeneratedImageOutput.
NoImage ==
    [urls |-> [webDisplay |-> <<>>, printReady |-> <<>>, thumbnail |-> <<>>,
               socialShare |-> <<>>],
     commerceReady |-> FALSE, provider |-> "none"]
NoGwcError == "none"

GwcIdle ==
    /\ gwcPc = "idle"
    /\ gwcProvider = "none"
    /\ gwcImage = NoImage
    /\ gwcProcessing = "none"
    /\ gwcError = NoGwcError

GwcQuiet == printfulKey = FALSE /\ GwcIdle

\* The calls made on a provider instance, and the saveGeneratedImage calls.
ProviderCalls == 1..MaxCalls
SaveIds == 1..MaxSaves
ProviderNames == {Providers[i] : i \in 1..Len(Providers)}
\* generateImage was not called.
NoCall == [pc |-> "unused", provider |-> "none", begun |-> 0, ended |-> 0,
           generationTime |-> 0]
\* saveGeneratedImage was not called.
NoSave == [pc |-> "unused", read |-> 0]

\* The providers as constructed (startTime = 0), the user's document as
\* createUserSession wrote it (imagesGenerated: 0), and no call made.
BackendQuiet ==
    /\ now = 0
    /\ startTime = [p \in ProviderNames |-> 0]
    /\ genCall = [c \in ProviderCalls |-> NoCall]
    /\ imagesGenerated = 0
    /\ saveCall = [c \in SaveIds |-> NoSave]

SvcQuiet == HookQuiet /\ GwcQuiet /\ BackendQuiet

SelQuiet ==
    /\ selPrompt = <<>>
    /\ selStyleName = <<>>
    /\ geminiKey = FALSE
    /\ falKey = FALSE
    /\ falPc = "done"
    /\ falClient = FALSE
    /\ selPc = "idle"
    /\ selIndex = 0
    /\ selResult = "none"

\* The App with the selector at rest.
Init == AppInit /\ SelQuiet /\ SvcQuiet

\* The selector after the construction of ImageGenerationService (the
\* import of the fal.ai client is under way), called with any of the texts
\* under any configuration of the two API keys.
SelInit ==
    /\ AppInit
    /\ firebaseEnabled = FALSE
    /\ selPrompt \in Prompts
    /\ selStyleName \in StyleNames
    /\ geminiKey \in BOOLEAN
    /\ falKey \in BOOLEAN
    /\ falPc = "importing"
    /\ falClient = FALSE
    /\ selPc = "idle"
    /\ selIndex = 0
    /\ selResult = "none"
    /\ SvcQuiet

SelReturn(p) ==
    /\ selPc' = "returned"
    /\ selResult' = p
    /\ selIndex' = selIndex

SelGoto(pc) ==
    /\ selPc' = pc
    /\ selResult' = selResult
    /\ selIndex' = selIndex

\* initializeFal after `await import('@fal-ai/client')`: the client is kept
\* when the import succeeded and the key is set.  The continuation of an
\* import does not run in the middle of the microtasks of a selection.
FalInitialized ==
    /\ falPc = "importing"
    /\ selPc \in {"idle", "returned", "thrown"}
    /\ falPc' = "done"
    /\ \E imported \in BOOLEAN : falClient' = (imported /\ falKey)
    /\ UNCHANGED <<selPrompt, selStyleName, geminiKey, falKey, selPc, selIndex,
                   selResult>>
    /\ UNCHANGED <<appVars, svcVars>>

\* selectOptimalProvider up to its first await.
SelectOptimalProvider ==
    /\ selPc = "idle"
    /\ SelGoto("party")
    /\ UNCHANGED <<selPrompt, selStyleName, geminiKey, falKey, falPc, falClient>>
    /\ UNCHANGED <<appVars, svcVars>>

\* if (isPartyTheme && seedreamProvider && await seedreamProvider.isAvailable())
CheckParty ==
    /\ selPc = "party"
    /\ IF PartyBranch THEN SelReturn("seedream") ELSE SelGoto("professional")
    /\ UNCHANGED <<selPrompt, selStyleName, geminiKey, falKey, falPc, falClient>>
    /\ UNCHANGED <<appVars, svcVars>>

\* if (isProfessionalTheme && geminiProvider && await geminiProvider.isAvailable())
CheckProfessional ==
    /\ selPc = "professional"
    /\ IF ProfessionalBranch THEN SelReturn("gemini") ELSE SelGoto("default")
    /\ UNCHANGED <<selPrompt, selStyleName, geminiKey, falKey, falPc, falClient>>
    /\ UNCHANGED <<appVars, svcVars>>

\* if (await this.defaultProvider.isAvailable())
CheckDefault ==
    /\ selPc = "default"
    /\ IF IsAvailable(DefaultProvider)
       THEN SelReturn(DefaultProvider)
       ELSE /\ selPc' = "loop"
            /\ selIndex' = 1
            /\ selResult' = selResult
    /\ UNCHANGED <<selPrompt, selStyleName, geminiKey, falKey, falPc, falClient>>
    /\ UNCHANGED <<appVars, svcVars>>

\* One turn of the loop over this.providers, or the throw after it.
CheckLoop ==
    /\ selPc = "loop"
    /\ IF selIndex > Len(LoopProviders)
       THEN /\ selPc' = "thrown"
            /\ selResult' = "none"
            /\ selIndex' = selIndex
       ELSE IF IsAvailable(LoopProviders[selIndex])
            THEN SelReturn(LoopProviders[selIndex])
            ELSE /\ selIndex' = selIndex + 1
                 /\ selPc' = selPc
                 /\ selResult' = selResult
    /\ UNCHANGED <<selPrompt, selStyleName, geminiKey, falKey, falPc, falClient>>
    /\ UNCHANGED <<appVars, svcVars>>

SelNext ==
    \/ FalInitialized
    \/ SelectOptimalProvider
    \/ CheckParty
    \/ CheckProfessional
    \/ CheckDefault
    \/ CheckLoop

SelSpec == SelInit /\ [][SelNext]_vars

\* ------------------------------------------------------ specifications
Next ==
    \/ NameSubmit
    \/ ImageUpload
    \/ GenerateClick
    \/ \E w \in WorkerIds : GenResolve(w)
    \/ \E w \in WorkerIds : SaveSettle(w)
    \/ \E w \in WorkerIds : GenReject(w)
    \/ \E w \in WorkerIds : WorkerLoop(w)
    \/ BatchComplete
    \/ \E s \in Styles : RegenerateStyle(s)
    \/ \E r \in RegenIds : RegenResolve(r)
    \/ \E r \in RegenIds : RegenReject(r)
    \/ Reset

Spec == Init /\ [][Next]_vars

\* The generation and save calls of the App always settle, the ready promise
\* continuations run, and nothing is assumed of the user.
FairSpec ==
    /\ Spec
    /\ \A w \in WorkerIds : WF_vars(GenResolve(w) \/ GenReject(w))
    /\ \A w \in WorkerIds : WF_vars(SaveSettle(w))
    /\ \A w \in WorkerIds : WF_vars(WorkerLoop(w))
    /\ WF_vars(BatchComplete)
    /\ \A r \in RegenIds : WF_vars(RegenResolve(r) \/ RegenReject(r))

\* ----------------------------------------------------------- properties
Terminal == {"done", "error"}
BatchStates == {"generating", "results-shown"}
AllWorkersExited == \A w \in WorkerIds : worker[w].pc = "exited"
InQueue(s) == \E i \in 1..Len(stylesQueue) : stylesQueue[i] = s

\* the step is the batch-complete signal
SignalStep == isLoading /\ ~isLoading'
\* the step is a result write of the batch to style s
BatchWroteTo(s) == batchWrites'[s] = batchWrites[s] + 1
\* the step starts / ends regenerate call r
RegenStarted(r) == regen[r].pc = "unused" /\ regen'[r].pc = "gen"
RegenFinished(r) == regen[r].pc = "gen" /\ regen'[r].pc = "finished"

\* C1 as stated: the batch-complete signal is issued only when both workers
\* have exited, and in the state where it is issued every style is 'done' or
\* 'error', whatever the user did while the batch ran.
C1_SignalAllSettled ==
    [][SignalStep =>
          /\ AllWorkersExited
          /\ \A s \in Styles : generatedImages'[s].status \in Terminal]_vars

\* C1 amended: the batch-complete signal is issued only when both workers have
\* exited, the queue is empty and the batch has recorded one result for every
\* style; in the state where it is issued a style is 'done' or 'error' unless
\* a regenerate of that style is still in flight, and then it is 'pending'.
C1_SignalAfterWorkers ==
    [][SignalStep =>
          /\ AllWorkersExited
          /\ stylesQueue = <<>>
          /\ \A s \in Styles :
                /\ batchWrites[s] = 1
                /\ \/ generatedImages'[s].status \in Terminal
                   \/ /\ generatedImages'[s].status = "pending"
                      /\ RegensInFlight(s) # {}]_vars

\* The signal was issued while a style regenerated during the batch was pending.
C1_Witness ==
    /\ appState = "results-shown"
    /\ unsettledAtComplete # NoSignal
    /\ unsettledAtComplete # {}

\* C2: within a batch every style is removed from the queue once, by one
\* worker, and passed to the generation call once: never twice, none skipped
\* when the workers have exited, and a rejected style is not taken again.
C2_EachStyleOnce ==
    /\ \A s \in Styles : calls[s] <= 1
    /\ \A s \in Styles : batchActive => (calls[s] = 0 <=> InQueue(s))
    /\ \A w1, w2 \in WorkerIds :
          (w1 # w2 /\ worker[w1].style # 0) => worker[w1].style # worker[w2].style
    /\ \A s \in Styles :
          batchResult[s].kind = "rejected" => (calls[s] = 1 /\ ~InQueue(s))
    /\ (batchActive /\ AllWorkersExited) => \A s \in Styles : calls[s] = 1

\* The workers have exited after a batch in which a generation was rejected.
C2_Witness ==
    /\ batchActive
    /\ AllWorkersExited
    /\ \E s \in Styles : batchResult[s].kind = "rejected"
    /\ \A s \in Styles : calls[s] = 1

\* The entry the batch records for a call that ended as `res`, with the
\* thrown error's own message.
RecordedAsThrown(res, photo, s) ==
    IF res.kind = "ok" THEN DoneEntry(Url(photo, s))
    ELSE ErrorEntry(res.error.message)

\* The same, with the message of a network failure replaced.
RecordedForUser(res, photo, s) ==
    IF res.kind = "ok" THEN DoneEntry(Url(photo, s))
    ELSE IF \/ Includes(res.error.message, <<"Failed to fetch">>)
            \/ Includes(res.error.message, <<"QUIC_PROTOCOL_ERROR">>)
         THEN ErrorEntry(NetworkMessage)
         ELSE ErrorEntry(res.error.message)

\* What C3 says of every step in which the batch records a result, given the
\* entry that is to be recorded: the entry of the style is the one its own
\* call produced, no other entry changes, and the worker returns to its loop;
\* and when the workers have exited every style has its result.
C3_Step(Recorded(_, _, _)) ==
    /\ \A s \in Styles :
          BatchWroteTo(s) =>
             /\ batchResult'[s].kind # "none"
             /\ generatedImages'[s] = Recorded(batchResult'[s], uploadedImage, s)
             /\ \A t \in Styles \ {s} : generatedImages'[t] = generatedImages[t]
             /\ \A w \in WorkerIds :
                   (worker[w].style = s /\ worker[w].pc \in {"gen", "save"})
                      => worker'[w].pc = "loop"
    /\ (batchActive /\ AllWorkersExited) =>
          \A s \in Styles : batchWrites[s] = 1 /\ batchResult[s].kind # "none"

C4_BatchCompletes ==
    /\ batchActive ~> ~batchActive
    /\ \A s \in Styles :
          (batchActive /\ Status(s) = "pending") ~> (Status(s) # "pending")

\* The signal was issued after a batch in which every generation call failed.
C4_Witness ==
    /\ appState = "results-shown"
    /\ unsettledAtComplete = {}
    /\ \A s \in Styles : Status(s) = "error"
    /\ \A r \in RegenIds : regen[r].pc = "unused"

RECURSIVE SumTo(_, _)
SumTo(f, n) == IF n = 0 THEN 0 ELSE f[n] + SumTo(f, n - 1)

\* generation calls of the batch that were started and have not settled
InFlight ==
    SumTo([s \in Styles |->
              calls[s] - (IF batchResult[s].kind = "none" THEN 0 ELSE 1)],
          NumStyles)

\* C5: the batch never has more than concurrencyLimit generation calls in
\* flight, a style that was started and is no longer held by a worker has its
\* result recorded, and the styles are started in the order of the queue.
C5_BoundedFifo ==
    /\ InFlight <= ConcurrencyLimit
    /\ \A s \in Styles :
          (calls[s] >= 1 /\ ~\E w \in WorkerIds :
                               worker[w].style = s /\ worker[w].pc \in {"gen", "save"})
             => (batchWrites[s] = 1 /\ Status(s) # "absent")
    /\ startOrder = SubSeq(MIAMI_STYLES_KEYS, 1, Len(startOrder))

\* Two calls are in flight, one of them for the third style of the queue.
C5_Witness ==
    /\ InFlight = ConcurrencyLimit
    /\ Len(startOrder) = 3
    /\ batchWrites[1] + batchWrites[2] = 1

C7_MonotoneEntries ==
    [][(appState \in BatchStates /\ appState' \in BatchStates) =>
          \A s \in Styles :
             /\ generatedImages'[s].status # "absent"
             /\ generatedImages'[s] # generatedImages[s] =>
                   \/ /\ Status(s) = "pending"
                      /\ generatedImages'[s].status \in Terminal
                   \/ /\ Status(s) \in Terminal
                      /\ generatedImages'[s] = Pending
                      /\ \E r \in RegenIds : RegenStarted(r) /\ regen'[r].style = s]_vars

\* C8: the result of a generation call that was in flight at a reset (a call
\* made for a photo that is no longer the uploaded one) is ignored: when it
\* settles, the result map and appState do not change.
C8_StaleResultIgnored ==
    [][\A r \in RegenIds :
          (RegenFinished(r) /\ regen[r].photo # uploadedImage) =>
             (generatedImages' = generatedImages /\ appState' = appState)]_vars


\* The texts that contain a party keyword, and those that contain a
\* professional keyword, in any letter case (read off the texts).
PartyTexts == {PromptBeachClub, PromptNightclub, NameBeachGigolo}
ProfessionalTexts == {PromptExecutive, PromptNightclub, NameDrugLord}
PartyMatch == selPrompt \in PartyTexts \/ selStyleName \in PartyTexts
ProfessionalMatch ==
    selPrompt \in ProfessionalTexts \/ selStyleName \in ProfessionalTexts
GeminiAvailable == geminiKey
SeedreamAvailable == falKey /\ falClient

\* the step in which selectOptimalProvider returns or throws
SelEnds == selPc \notin {"returned", "thrown"} /\ selPc' \in {"returned", "thrown"}

\* The provider the priority order of C9 names, "none" when there is none.
SelExpected ==
    IF PartyMatch /\ SeedreamAvailable THEN "seedream"
    ELSE IF ProfessionalMatch /\ GeminiAvailable THEN "gemini"
    ELSE IF GeminiAvailable THEN "gemini"
    ELSE IF SeedreamAvailable THEN "seedream"
    ELSE "none"

\* C9: selectOptimalProvider returns SeeDream if a party keyword matches and
\* SeeDream is available, otherwise Gemini if a professional keyword matches
\* and Gemini is available, otherwise the default provider (Gemini) if it is
\* available, otherwise the first available provider in registration order.
C9_SelectsByPriority ==
    [][(SelEnds /\ SelExpected # "none") =>
          (selPc' = "returned" /\ selResult' = SelExpected)]_vars

\* Both kinds of keyword match and both providers are available: SeeDream.
C9_Witness ==
    /\ selPc = "returned"
    /\ selResult = "seedream"
    /\ selPrompt = PromptNightclub
    /\ selStyleName = NameDrugLord
    /\ geminiKey

\* C10: selectOptimalProvider throws 'No image generation providers
\* available' exactly when no registered provider is available, and returns
\* a registered provider otherwise, whatever the keywords.
C10_ThrowsIffNoneAvailable ==
    [][SelEnds =>
          /\ selPc' = "thrown" <=> (~GeminiAvailable /\ ~SeedreamAvailable)
          /\ selPc' = "returned" =>
                \E i \in 1..Len(Providers) : selResult' = Providers[i]]_vars

\* The selection threw while the fal.ai key was set but its client was not.
C10_Witness ==
    /\ selPc = "thrown"
    /\ ~geminiKey
    /\ falKey
    /\ ~falClient


\* ======================================================================
\* Part 3: WebhookService
\* ======================================================================
\* Date.now() is not kept: an item holds the time left until its nextRetry
\* (nextRetry - now), the timer the time left until its next tick, and time
\* passes in steps of TimeStep.
TimeStep == retryDelay

RECURSIVE Pow2(_)
\* Math.pow(2, n)
Pow2(n) == IF n <= 0 THEN 1 ELSE 2 * Pow2(n - 1)

\* A delay that does not grow with the attempts.
BackoffDelay_Fixed(attempts) == retryDelay

\* this.retryDelay * Math.pow(2, item.attempts - 1)
BackoffDelay(attempts) == retryDelay * Pow2(attempts - 1)

\* a sendWebhook call for event e starts / ends with outcome o
SendStarted(s, e) ==
    [s EXCEPT ![e].started = @ + 1,
              ![e].payloads =
                  Append(@, PreparePayload(AutomationEvent(e), e,
                                           s[e].started + 1))]
SendEnded(s, e, o) == [s EXCEPT ![e].outcomes = Append(@, o)]
SendInFlight(e) == sends[e].started > Len(sends[e].outcomes)

\* failedQueue.delete(id)
QueueDelete(q, e) == SelectSeq(q, LAMBDA x : x # e)

\* A failed delivery that queues nothing.
QueueFailedWebhook_Drop(e) ==
    [queue |-> failedQueue, items |-> items, delays |-> delays]

\* queueFailedWebhook(event): a new item with attempts 0, due in retryDelay
QueueFailedWebhook(e) ==
    [queue  |-> Append(failedQueue, e),
     items  |-> [items EXCEPT ![e] = [id |-> e, attempts |-> 0,
                                      nextRetryIn |-> retryDelay,
                                      maxRetries |-> maxRetries]],
     delays |-> [delays EXCEPT ![e] = <<retryDelay>>]]

\* The events not yet handed to emit; they are handed over in the order of
\* their numbers.
Unused == {e \in Events : emits[e] = "unused"}
NextUnused == CHOOSE e \in Unused : \A f \in Unused : e <= f

\* the emitBatch call resolves once every emit of it has resolved
BatchAfter(em) ==
    IF hookBatch.pc = "waiting" /\ \A e \in hookBatch.events : em[e] = "resolved"
    THEN [hookBatch EXCEPT !.pc = "resolved"]
    ELSE hookBatch

\* emit(event) up to `await this.sendWebhook(payload)`; without a webhook
\* URL it returns at once.
StartEmits(E) ==
    IF webhookUrl
    THEN /\ emits' = [e \in Events |-> IF e \in E THEN "sending" ELSE emits[e]]
         /\ sends' = [e \in Events |->
                        IF e \in E THEN SendStarted(sends, e)[e]
                        ELSE sends[e]]
    ELSE /\ emits' = [e \in Events |-> IF e \in E THEN "resolved" ELSE emits[e]]
         /\ sends' = sends

Emit(e) ==
    /\ Unused # {}
    /\ e = NextUnused
    /\ StartEmits({e})
    /\ UNCHANGED <<webhookUrl, failedQueue, items, isProcessingQueue, stats,
                   hookBatch, sweep, untilTick, delays>>
    /\ UNCHANGED <<appVars, selVars, backendVars, gwcVars, apiVars>>

\* emitBatch(events): every emit is started, then Promise.allSettled awaited
EmitBatch(last) ==
    /\ hookBatch.pc = "idle"
    /\ Unused # {}
    /\ last \in Unused
    /\ LET E == {e \in Unused : e <= last} IN
         /\ StartEmits(E)
         /\ hookBatch' = [pc |-> IF webhookUrl THEN "waiting" ELSE "resolved",
                          events |-> E]
    /\ UNCHANGED <<webhookUrl, failedQueue, items, isProcessingQueue, stats,
                   sweep, untilTick, delays>>
    /\ UNCHANGED <<appVars, selVars, backendVars, gwcVars, apiVars>>


\* testWebhook: try { await this.emit(...); return true } catch { return false }
TestWebhookResult(emitOutcome) == emitOutcome # "rejected"

\* the testWebhook call that awaits the emit of e returns
TestAfter(e, emitOutcome) ==
    IF testCall.pc = "awaiting" /\ testCall.event = e
    THEN [testCall EXCEPT !.pc = "returned",
                          !.result = TestWebhookResult(emitOutcome)]
    ELSE testCall

\* sendWebhook of an emit settles: on success totalSent is counted, on a
\* thrown fetch or a non-OK response the catch block queues the event; emit
\* resolves either way, and a testWebhook call that awaits it returns.
EmitSettle(e, ok) ==
    /\ emits[e] = "sending"
    /\ emits' = [emits EXCEPT ![e] = "resolved"]
    /\ testCall' = TestAfter(e, emits'[e])
    /\ hookBatch' = BatchAfter(emits')
    /\ sends' = SendEnded(sends, e, IF ok THEN "ok" ELSE "fail")
    /\ IF ok
       THEN /\ stats' = [stats EXCEPT !.totalSent = @ + 1]
            /\ UNCHANGED <<failedQueue, items, delays>>
       ELSE LET q == QueueFailedWebhook(e) IN
            /\ failedQueue' = q.queue
            /\ items' = q.items
            /\ delays' = q.delays
            /\ stats' = [stats EXCEPT !.totalFailed = @ + 1]
    /\ UNCHANGED <<webhookUrl, isProcessingQueue, sweep, untilTick>>
    /\ UNCHANGED <<appVars, selVars, backendVars, gwcVars, enabled, manual>>

\* A guard of the timer callback that does not look at the flag.
SweepSkipped_NoFlag == failedQueue = <<>>

\* if (this.isProcessingQueue || this.failedQueue.size === 0) return;
SweepSkipped == isProcessingQueue \/ failedQueue = <<>>

\* item.nextRetry <= now && item.attempts < item.maxRetries
Retryable(item) == item.nextRetryIn <= 0 /\ item.attempts < item.maxRetries

\* Array.from(this.failedQueue.values()).filter(...)
ItemsToRetry == SelectSeq(failedQueue, LAMBDA e : Retryable(items[e]))

\* An exhausted item that is kept.
RetriesExhausted_Never(item) == FALSE

\* if (item.attempts >= item.maxRetries)
RetriesExhausted(item) == item.attempts >= item.maxRetries

\* A flag left up by the finally block.
FlagAfterSweep_Stuck == TRUE

\* finally { this.isProcessingQueue = false; }
FlagAfterSweep == FALSE

\* A successful retry that leaves the item in the queue.
DeleteDelivered_Keep(q, e) == q

\* this.failedQueue.delete(item.id) after a successful retry
DeleteDelivered(q, e) == QueueDelete(q, e)

\* item.attempts++ and sendWebhook for the item at position i of the pass
RetryItem(its, e) == [its EXCEPT ![e].attempts = @ + 1]

\* A tick of the setInterval timer: the callback returns at once when a pass
\* is running or the queue is empty; otherwise it raises the flag and runs
\* processRetryQueue up to the first `await this.sendWebhook(payload)`.  A
\* pass that finds no item to retry returns and the flag is lowered before
\* anything else runs.
Tick ==
    /\ untilTick = 0
    /\ untilTick' = SweepInterval
    /\ IF SweepSkipped
       THEN UNCHANGED <<isProcessingQueue, sweep, items, sends>>
       ELSE IF ItemsToRetry = <<>>
            THEN /\ isProcessingQueue' = FlagAfterSweep
                 /\ UNCHANGED <<sweep, items, sends>>
            ELSE /\ isProcessingQueue' = TRUE
                 /\ sweep' = [pc |-> "sending", itemsToRetry |-> ItemsToRetry,
                              index |-> 1]
                 /\ items' = RetryItem(items, ItemsToRetry[1])
                 /\ sends' = SendStarted(sends, ItemsToRetry[1])
    /\ UNCHANGED <<webhookUrl, failedQueue, stats, emits, hookBatch, delays>>
    /\ UNCHANGED <<appVars, selVars, backendVars, gwcVars, apiVars>>

\* sendWebhook of the pass settles for the current item: a delivered item is
\* deleted and totalRetried counted; a failed one is deleted when its
\* attempts reached maxRetries and otherwise rescheduled with the backoff
\* delay.  The loop then goes on to the next item of itemsToRetry, or the
\* pass returns and the flag is lowered.
SweepSettle(ok) ==
    /\ sweep.pc = "sending"
    /\ LET e == sweep.itemsToRetry[sweep.index]
           exhausted == RetriesExhausted(items[e])
           delay == BackoffDelay(items[e].attempts)
           queue1 == IF ok THEN DeleteDelivered(failedQueue, e)
                     ELSE IF exhausted THEN QueueDelete(failedQueue, e)
                     ELSE failedQueue
           items1 == IF ok \/ exhausted THEN items
                     ELSE [items EXCEPT ![e].nextRetryIn = delay]
           sends1 == SendEnded(sends, e, IF ok THEN "ok" ELSE "fail")
           more == sweep.index < Len(sweep.itemsToRetry)
           next == sweep.itemsToRetry[sweep.index + 1]
       IN
         /\ failedQueue' = queue1
         /\ stats' = IF ok THEN [stats EXCEPT !.totalRetried = @ + 1] ELSE stats
         /\ delays' = IF ok \/ exhausted THEN delays
                      ELSE [delays EXCEPT ![e] = Append(@, delay)]
         /\ IF more
            THEN /\ items' = RetryItem(items1, next)
                 /\ sends' = SendStarted(sends1, next)
                 /\ sweep' = [sweep EXCEPT !.index = @ + 1]
                 /\ isProcessingQueue' = isProcessingQueue
            ELSE /\ items' = items1
                 /\ sends' = sends1
                 /\ sweep' = IdleSweep
                 /\ isProcessingQueue' = FlagAfterSweep
    /\ UNCHANGED <<webhookUrl, emits, hookBatch, untilTick>>
    /\ UNCHANGED <<appVars, selVars, backendVars, gwcVars, apiVars>>

\* TimeStep ms pass; the timer callback runs as soon as its tick is due.
Advance ==
    /\ untilTick > 0
    /\ untilTick' = untilTick - TimeStep
    /\ items' = [e \in Events |->
                   [items[e] EXCEPT !.nextRetryIn =
                       IF @ > TimeStep THEN @ - TimeStep ELSE 0]]
    /\ UNCHANGED <<webhookUrl, failedQueue, isProcessingQueue, stats, emits,
                   hookBatch, sweep, sends, delays>>
    /\ UNCHANGED <<appVars, selVars, backendVars, gwcVars, apiVars>>

\* The service after its construction, with or without a webhook URL.
HookInit ==
    /\ AppInit
    /\ firebaseEnabled = FALSE
    /\ SelQuiet
    /\ GwcQuiet
    /\ BackendQuiet
    /\ webhookUrl \in BOOLEAN
    /\ HookConstructed

HookNext ==
    \/ \E e \in Events : Emit(e)
    \/ \E e \in Events : EmitBatch(e)
    \/ \E e \in Events, ok \in BOOLEAN : EmitSettle(e, ok)
    \/ Tick
    \/ \E ok \in BOOLEAN : SweepSettle(ok)
    \/ Advance

HookSpec == HookInit /\ [][HookNext]_vars

\* Time passes, the timer keeps firing and every delivery attempt completes.
FairHookSpec ==
    /\ HookSpec
    /\ WF_vars(Advance)
    /\ WF_vars(Tick)
    /\ WF_vars(\E e \in Events, ok \in BOOLEAN : EmitSettle(e, ok))
    /\ WF_vars(\E ok \in BOOLEAN : SweepSettle(ok))


\* ------------------------------------------------------------ C13 .. C20
InFailedQueue(e) == \E i \in 1..Len(failedQueue) : failedQueue[i] = e
\* the step ends the sendWebhook call of emit(e) with outcome o
EmitSendEnded(e, o) ==
    /\ emits[e] = "sending"
    /\ sends'[e].outcomes = Append(sends[e].outcomes, o)

\* C13: emit never rejects.  With a webhook URL configured, a delivery that
\* throws or is answered with a non-OK status makes emit resolve, and the
\* failed-webhook queue gains exactly one item, for that event, with
\* attempts = 0 and maxRetries = 3; a delivered event queues nothing.
\* emitBatch starts the delivery of every one of its events and resolves
\* exactly when all of its emits have resolved, whatever their outcomes.
C13_EmitNeverRejects ==
    [][/\ \A e \in Events :
             /\ EmitSendEnded(e, "fail") =>
                   /\ emits'[e] = "resolved"
                   /\ ~InFailedQueue(e)
                   /\ failedQueue' = Append(failedQueue, e)
                   /\ items'[e].attempts = 0
                   /\ items'[e].maxRetries = 3
             /\ EmitSendEnded(e, "ok") =>
                   /\ emits'[e] = "resolved"
                   /\ failedQueue' = failedQueue
       /\ hookBatch'.pc # "idle" =>
             /\ webhookUrl => \A e \in hookBatch'.events : sends'[e].started >= 1
             /\ hookBatch'.pc = "resolved" <=>
                   \A e \in hookBatch'.events : emits'[e] = "resolved"]_vars

\* An emitBatch resolved with one event delivered and one event queued.
C13_Witness ==
    /\ hookBatch.pc = "resolved"
    /\ \E e, f \in hookBatch.events :
          /\ sends[e].outcomes = <<"fail">>
          /\ InFailedQueue(e)
          /\ items[e].attempts = 0
          /\ sends[f].outcomes = <<"ok">>
          /\ stats.totalSent = 1


\* an item was made for the event and is no longer in the queue
Removed(e) == items[e].id # 0 /\ ~InFailedQueue(e)
\* the step ends a retry of the item of e with outcome o
RetryEnded(e, o) ==
    /\ sweep.pc = "sending"
    /\ sweep.itemsToRetry[sweep.index] = e
    /\ sends'[e].outcomes = Append(sends[e].outcomes, o)

C15_StrictlyIncreasingDelays ==
    \A e \in Events :
       \A i \in 1..Len(delays[e]) :
          i > 1 => delays[e][i - 1] < delays[e][i]

\* the deliveries of e so far: failures only, then one success
DeliveredAfterFailures(s) ==
    /\ Len(s.outcomes) >= 2
    /\ s.outcomes[Len(s.outcomes)] = "ok"
    /\ \A i \in 1..(Len(s.outcomes) - 1) : s.outcomes[i] = "fail"

TimerFired == untilTick = 0 /\ untilTick' = SweepInterval
\* the event's item is in itemsToRetry of the running pass
InPass(e) == \E i \in 1..Len(sweep.itemsToRetry) : sweep.itemsToRetry[i] = e

\* C19: the periodic sweep never runs two passes of processRetryQueue at the
\* same time: a pass is started only by a tick that finds the flag down and
\* no pass running, a tick that fires while a pass awaits a delivery changes
\* nothing, the flag is up exactly while a pass is running (it is down again
\* after every pass), and a step of the pass leaves untouched every item that
\* is not in its itemsToRetry, such as one queued by a failing emit meanwhile.
C19_OnePassAtATime ==
    [][/\ (TimerFired /\ sweep'.pc = "sending" /\ sweep' # sweep) =>
             (sweep.pc = "idle" /\ ~isProcessingQueue)
       /\ (TimerFired /\ sweep.pc = "sending") =>
             /\ sweep' = sweep
             /\ items' = items
             /\ sends' = sends
             /\ failedQueue' = failedQueue
       /\ isProcessingQueue' <=> sweep'.pc = "sending"
       /\ (sweep.pc = "sending" /\ sweep' # sweep) =>
             \A e \in Events :
                ~InPass(e) =>
                   /\ items'[e] = items[e]
                   /\ sends'[e] = sends[e]
                   /\ InFailedQueue(e)' <=> InFailedQueue(e)]_vars

\* A pass is still awaiting a delivery after a later tick has fired, and an
\* item queued meanwhile is due but not part of the pass.
C19_Witness ==
    /\ sweep.pc = "sending"
    /\ isProcessingQueue
    /\ untilTick = SweepInterval
    /\ \E e \in Events :
          /\ InFailedQueue(e)
          /\ ~InPass(e)
          /\ items[e].attempts = 0
          /\ items[e].nextRetryIn = 0


\* C20: while time passes, the retry timer keeps firing and every delivery
\* attempt completes, every item placed in the failed-webhook queue is
\* eventually removed from it (by a successful retry or after maxRetries
\* failed retries).
C20_QueueDrains ==
    \A e \in Events : InFailedQueue(e) ~> Removed(e)

\* One item left the queue by a successful retry, another after three
\* failed retries.
C20_Witness ==
    \E e, f \in Events :
       /\ Removed(e)
       /\ sends[e].outcomes = <<"fail", "ok">>
       /\ Removed(f)
       /\ items[f].attempts = 3
       /\ failedQueue = <<>>


\* ======================================================================
\* Part 4: ServiceManager.generateImageWithCommerce
\* ======================================================================
RECURSIVE FirstAvailable(_)
\* for (const [name, provider] of this.providers) if available return it
FirstAvailable(ps) ==
    IF ps = <<>> THEN "none"
    ELSE IF IsAvailable(Head(ps)) THEN Head(ps)
    ELSE FirstAvailable(Tail(ps))

\* selectOptimalProvider as ImageGenerationService.generateImage awaits it:
\* the four checks in their order, run without interruption; "none" stands
\* for the throw after the loop.
SelectedProvider ==
    IF PartyBranch THEN "seedream"
    ELSE IF ProfessionalBranch THEN "gemini"
    ELSE IF IsAvailable(DefaultProvider) THEN DefaultProvider
    ELSE FirstAvailable(LoopProviders)

\* the URL the remote generation of provider p answers with
WebUrl(p) == <<"generated", p>>
\* canvas.toDataURL(...) of createPrintVersion / createThumbnail / createSocialVersion
DataUrl(kind, p) == <<"data:image/jpeg", kind, p>>

\* What can happen inside processImageForCommerce: the three versions are
\* drawn; getContext('2d') returns null; the image does not load (onerror);
\* drawing or toDataURL throws in onload.
ProcessingOutcomes == {"processed", "noContext", "loadError", "canvasError"}
ProcessingFailures == ProcessingOutcomes \ {"processed"}

\* the fallback of every failure path: the original image for all formats
OriginalForAll(u) ==
    [webDisplay |-> u, printReady |-> u, thumbnail |-> u, socialShare |-> u]

\* ImageProcessingService.processImageForCommerce: every failure inside it
\* is caught (outer catch, onerror, catch in onload) and answered with the
\* original URL for all formats; the promise it returns is never rejected.
ProcessImageForCommerce(u, p, outcome) ==
    [rejected |-> FALSE,
     urls |-> IF outcome = "processed"
              THEN [webDisplay |-> u, printReady |-> DataUrl("print", p),
                    thumbnail |-> DataUrl("thumbnail", p),
                    socialShare |-> DataUrl("social", p)]
              ELSE OriginalForAll(u)]

\* enhanceForCommerce of either provider: commerceReady is true when
\* processImageForCommerce resolved, false in the catch block.
EnhanceForCommerce(u, p, processed) ==
    IF ~processed.rejected
    THEN [urls |-> processed.urls, commerceReady |-> TRUE, provider |-> p]
    ELSE [urls |-> OriginalForAll(u), commerceReady |-> FALSE, provider |-> p]

GwcUnchangedInputs ==
    UNCHANGED <<printfulKey, appVars, selVars, backendVars>>

GwcReject(err) ==
    /\ gwcPc' = "rejected"
    /\ gwcError' = err

UnchangedHook == UNCHANGED <<hookVars, apiVars>>

\* webhookService.emit(event) as awaited by the call: without a webhook URL
\* it returns at once, otherwise sendWebhook is in flight.
GwcEmit(e) ==
    /\ StartEmits({e})
    /\ UNCHANGED <<webhookUrl, failedQueue, items, isProcessingQueue, stats,
                   hookBatch, sweep, untilTick, delays>>
    /\ UNCHANGED apiVars

\* createProductsForImage up to the fetch of makeRequest: without an API key
\* makeRequest throws and the catch block returns mock products.
GwcCreateProducts ==
    /\ gwcPc' = IF printfulKey THEN "products" ELSE "resolved"
    /\ gwcError' = gwcError

\* generateImageWithCommerce up to the remote generation call:
\* imageGeneration.generateImage selects the provider and calls its
\* generateImage, which throws at once when SeeDream has no fal client.
\* ByteDanceSeedreamProvider.generateImage: if (!this.fal) throw
FalNotInitialized(p) == p = "seedream" /\ ~falClient

GenerateImageWithCommerce ==
    /\ gwcPc = "idle"
    /\ LET p == SelectedProvider IN
         IF p = "none"
         THEN GwcReject("No image generation providers available")
              /\ gwcProvider' = gwcProvider
         ELSE IF FalNotInitialized(p)
         THEN GwcReject("fal.ai client not initialized") /\ gwcProvider' = p
         ELSE /\ gwcPc' = "remote"
              /\ gwcProvider' = p
              /\ gwcError' = gwcError
    /\ UNCHANGED <<gwcImage, gwcProcessing>>
    /\ UnchangedHook
    /\ GwcUnchangedInputs


\* The remote generation settles: generateMiamiImage (Gemini) resolves with
\* a URL or rejects; fal.subscribe (SeeDream) resolves with an image URL,
\* resolves without one ('No image returned ...' is thrown) or rejects.  The
\* providers and the service rethrow, and so does the call.
RemoteSettle(outcome) ==
    /\ gwcPc = "remote"
    /\ outcome = "noImage" => gwcProvider = "seedream"
    /\ IF outcome = "image"
       THEN gwcPc' = "processing" /\ gwcError' = gwcError
       ELSE IF outcome = "noImage"
       THEN GwcReject("No image returned from ByteDance SeeDream")
       ELSE GwcReject("remote generation failed")
    /\ UNCHANGED <<gwcProvider, gwcImage, gwcProcessing>>
    /\ UnchangedHook
    /\ GwcUnchangedInputs

\* processImageForCommerce settles and enhanceForCommerce builds the
\* GeneratedImageOutput; generateImage returns it and the call goes on to
\* `await this.webhooks.emitImageGenerated(...)`, and from there, when emit
\* returns at once, to createProductsForImage.
ProcessSettle(outcome) ==
    /\ gwcPc = "processing"
    /\ LET u == WebUrl(gwcProvider)
           processed == ProcessImageForCommerce(u, gwcProvider, outcome)
       IN gwcImage' = EnhanceForCommerce(u, gwcProvider, processed)
    /\ gwcProcessing' = outcome
    /\ GwcEmit(ImageGeneratedEvent)
    /\ IF webhookUrl
       THEN gwcPc' = "emitting" /\ gwcError' = gwcError
       ELSE GwcCreateProducts
    /\ UNCHANGED gwcProvider
    /\ GwcUnchangedInputs

\* emit for image_generated has resolved: createProductsForImage is called.
ImageEmitReturned ==
    /\ gwcPc = "emitting"
    /\ emits[ImageGeneratedEvent] = "resolved"
    /\ GwcCreateProducts
    /\ UNCHANGED <<gwcProvider, gwcImage, gwcProcessing>>
    /\ UnchangedHook
    /\ GwcUnchangedInputs

\* The Printful request settles: on an error (with an API key configured)
\* createProductsForImage rethrows and so does the call; an answer without
\* sync_product gives no products; otherwise products_created is emitted
\* and awaited.
ProductsSettle(outcome) ==
    /\ gwcPc = "products"
    /\ IF outcome = "failed"
       THEN GwcReject("Printful API error") /\ UnchangedHook
       ELSE IF outcome = "noProduct"
       THEN gwcPc' = "resolved" /\ gwcError' = gwcError /\ UnchangedHook
       ELSE /\ GwcEmit(ProductsCreatedEvent)
            /\ gwcPc' = IF webhookUrl THEN "emitting2" ELSE "resolved"
            /\ gwcError' = gwcError
    /\ UNCHANGED <<gwcProvider, gwcImage, gwcProcessing>>
    /\ GwcUnchangedInputs

\* emit for products_created has resolved: the call returns {image, products}.
ProductsEmitReturned ==
    /\ gwcPc = "emitting2"
    /\ emits[ProductsCreatedEvent] = "resolved"
    /\ gwcPc' = "resolved"
    /\ UNCHANGED <<gwcProvider, gwcImage, gwcProcessing, gwcError>>
    /\ UnchangedHook
    /\ GwcUnchangedInputs

\* The services constructed and the fal.ai import settled, under any
\* configuration of the keys and the webhook URL; the call is made with any
\* of the texts.
CommerceInit ==
    /\ AppInit
    /\ firebaseEnabled = FALSE
    /\ selPrompt \in Prompts
    /\ selStyleName \in StyleNames
    /\ geminiKey \in BOOLEAN
    /\ falKey \in BOOLEAN
    /\ falPc = "done"
    /\ falClient \in {c \in BOOLEAN : c => falKey}
    /\ selPc = "idle"
    /\ selIndex = 0
    /\ selResult = "none"
    /\ webhookUrl \in BOOLEAN
    /\ HookConstructed
    /\ printfulKey \in BOOLEAN
    /\ GwcIdle
    /\ BackendQuiet

CommerceNext ==
    \/ GenerateImageWithCommerce
    \/ \E o \in {"image", "noImage", "rejected"} : RemoteSettle(o)
    \/ \E o \in ProcessingOutcomes : ProcessSettle(o)
    \/ \E e \in Events, ok \in BOOLEAN : EmitSettle(e, ok)
    \/ ImageEmitReturned
    \/ \E o \in {"created", "noProduct", "failed"} : ProductsSettle(o)
    \/ ProductsEmitReturned

CommerceSpec == CommerceInit /\ [][CommerceNext]_vars

\* Every step of the call that is ready runs, the remote generation, the
\* post-processing and the Printful request settle; nothing is assumed of
\* the webhook endpoint, which may never answer.
FairCommerceSpec ==
    /\ CommerceSpec
    /\ WF_vars(GenerateImageWithCommerce)
    /\ WF_vars(\E o \in {"image", "noImage", "rejected"} : RemoteSettle(o))
    /\ WF_vars(\E o \in ProcessingOutcomes : ProcessSettle(o))
    /\ WF_vars(ImageEmitReturned)
    /\ WF_vars(\E o \in {"created", "noProduct", "failed"} : ProductsSettle(o))
    /\ WF_vars(ProductsEmitReturned)


\* ------------------------------------------------- C11, C12, C17, C18
\* the provider's generateImage has resolved with a GeneratedImageOutput
ImageGenerated == gwcImage # NoImage

\* C11: for both providers, when the remote generation answered with an
\* image URL u and post-processing failed, generateImage resolves with
\* webDisplay = printReady = thumbnail = socialShare = u and commerceReady =
\* false; generateImage rejects only when the remote call failed or
\* returned no image.
C11_FallbackOnProcessingFailure ==
    /\ gwcProcessing \in ProcessingFailures =>
          /\ ImageGenerated
          /\ gwcImage.urls = OriginalForAll(WebUrl(gwcProvider))
          /\ gwcImage.commerceReady = FALSE
    /\ (gwcPc = "rejected" /\ gwcProvider # "none" /\ ~ImageGenerated) =>
          gwcError \in {"remote generation failed",
                        "No image returned from ByteDance SeeDream"}

\* C12: commerceReady is true only when printReady, thumbnail and
\* socialShare were produced by actual post-processing; an output whose
\* post-processing failed inside ImageProcessingService, with the original
\* URL reused for every format, has commerceReady = false.
C12_CommerceReadyMeansProcessed ==
    (ImageGenerated /\ gwcImage.commerceReady) =>
       /\ gwcProcessing = "processed"
       /\ gwcImage.urls # OriginalForAll(gwcImage.urls.webDisplay)

\* C17: once the image is generated the webhook neither fails nor blocks the
\* call: while the call awaits the image_generated emit it does not reject,
\* and it gets past that emit also when the delivery is never answered.
C17_WebhookNeverBlocks ==
    /\ [][gwcPc = "emitting" => gwcPc' # "rejected"]_vars
    /\ (gwcPc = "emitting") ~> (gwcPc # "emitting")

\* C18: a failure of commerce product creation is not propagated: once the
\* image is generated, generateImageWithCommerce does not reject.
C18_ProductFailureNotPropagated ==
    ImageGenerated => gwcPc # "rejected"

\* ----------------------------------------------------------------------
\* C21: every delivery attempt of an emitted event, the immediate one and
\* each retry, carries the same type, eventId, timestamp and userId.
C21_SamePayloadEveryAttempt ==
    \A e \in Events :
       \A i, j \in 1..Len(sends[e].payloads) :
          /\ sends[e].payloads[i].type = sends[e].payloads[j].type
          /\ sends[e].payloads[i].userId = sends[e].payloads[j].userId
          /\ sends[e].payloads[i].eventId = sends[e].payloads[j].eventId
          /\ sends[e].payloads[i].timestamp = sends[e].payloads[j].timestamp

\* ----------------------------------------------------------------------
\* generateMiamiImage calls of handleRegenerateStyle that have not settled
RegenCalls == {r \in RegenIds : regen[r].pc = "gen"}

\* C22: the app never has more than 2 image-generation calls in flight,
\* the calls of the batch workers and of the regenerations counted together.
C22_AtMostTwoCalls ==
    InFlight + Cardinality(RegenCalls) <= ConcurrencyLimit

\* ----------------------------------------------------------------------
\* the item of e passes the filter of processRetryQueue
DueForRetry(e) ==
    /\ InFailedQueue(e)
    /\ items[e].nextRetryIn <= 0
    /\ items[e].attempts < maxRetries

CallsInFlightFor(s) ==
    (calls[s] - (IF batchResult[s].kind = "none" THEN 0 ELSE 1))
       + Cardinality(RegensInFlight(s))

\* C24: a regenerate of a style whose entry is 'pending' does nothing, so
\* for any single style at most one generation call is in flight at any
\* time, the calls of the batch workers and the regenerations counted
\* together.
C24_OneCallPerStyle ==
    \A s \in Styles : CallsInFlightFor(s) <= 1


\* ======================================================================
\* Part 5: WebhookService, the rest of its public interface
\* ======================================================================
\* testWebhook(): emits a test event and awaits the emit.
TestWebhook(e) ==
    /\ testCall.pc = "idle"
    /\ Unused # {}
    /\ e = NextUnused
    /\ StartEmits({e})
    /\ testCall' = IF webhookUrl
                   THEN [pc |-> "awaiting", event |-> e, result |-> FALSE]
                   ELSE [pc |-> "returned", event |-> e,
                         result |-> TestWebhookResult(emits'[e])]
    /\ UNCHANGED <<webhookUrl, failedQueue, items, isProcessingQueue, stats,
                   hookBatch, sweep, untilTick, delays>>
    /\ UNCHANGED <<appVars, selVars, backendVars, gwcVars, enabled, manual>>

\* setEnabled(enabled)
SetEnabled(b) ==
    /\ enabled' = b
    /\ UNCHANGED <<hookVars, testCall, manual>>
    /\ UNCHANGED <<appVars, selVars, backendVars, gwcVars>>

\* isEnabled()
IsEnabled == enabled /\ webhookUrl

\* retryFailedWebhooks(): returns 0 on an empty queue; otherwise it runs
\* processRetryQueue, without looking at isProcessingQueue, up to the first
\* `await this.sendWebhook(payload)`, or to its return when no item is due.
RetryFailedWebhooks ==
    /\ manual.pc = "idle"
    /\ IF failedQueue = <<>>
       THEN /\ manual' = [NoManual EXCEPT !.returned = 0]
            /\ UNCHANGED <<items, sends>>
       ELSE IF ItemsToRetry = <<>>
            THEN /\ manual' = [NoManual EXCEPT !.returned = 0]
                 /\ UNCHANGED <<items, sends>>
            ELSE /\ manual' = [pc |-> "sending", itemsToRetry |-> ItemsToRetry,
                               index |-> 1, initialCount |-> Len(failedQueue),
                               returned |-> manual.returned]
                 /\ items' = RetryItem(items, ItemsToRetry[1])
                 /\ sends' = SendStarted(sends, ItemsToRetry[1])
    /\ UNCHANGED <<webhookUrl, failedQueue, isProcessingQueue, stats, emits,
                   hookBatch, sweep, untilTick, delays>>
    /\ UNCHANGED <<appVars, selVars, backendVars, gwcVars, enabled, testCall>>

\* sendWebhook of the pass of retryFailedWebhooks settles for the current
\* item: the same loop body as in the pass of the timer; after the last item
\* the call returns initialCount - this.failedQueue.size.
ManualSettle(ok) ==
    /\ manual.pc = "sending"
    /\ LET e == manual.itemsToRetry[manual.index]
           exhausted == RetriesExhausted(items[e])
           delay == BackoffDelay(items[e].attempts)
           queue1 == IF ok THEN DeleteDelivered(failedQueue, e)
                     ELSE IF exhausted THEN QueueDelete(failedQueue, e)
                     ELSE failedQueue
           items1 == IF ok \/ exhausted THEN items
                     ELSE [items EXCEPT ![e].nextRetryIn = delay]
           sends1 == SendEnded(sends, e, IF ok THEN "ok" ELSE "fail")
           more == manual.index < Len(manual.itemsToRetry)
           next == manual.itemsToRetry[manual.index + 1]
       IN
         /\ failedQueue' = queue1
         /\ stats' = IF ok THEN [stats EXCEPT !.totalRetried = @ + 1] ELSE stats
         /\ delays' = IF ok \/ exhausted THEN delays
                      ELSE [delays EXCEPT ![e] = Append(@, delay)]
         /\ IF more
            THEN /\ items' = RetryItem(items1, next)
                 /\ sends' = SendStarted(sends1, next)
                 /\ manual' = [manual EXCEPT !.index = @ + 1]
            ELSE /\ items' = items1
                 /\ sends' = sends1
                 /\ manual' = [NoManual EXCEPT
                                  !.returned = manual.initialCount - Len(queue1)]
    /\ UNCHANGED <<webhookUrl, isProcessingQueue, emits, hookBatch, sweep,
                   untilTick>>
    /\ UNCHANGED <<appVars, selVars, backendVars, gwcVars, enabled, testCall>>

HookApiNext ==
    \/ \E e \in Events : Emit(e)
    \/ \E e \in Events : EmitBatch(e)
    \/ \E e \in Events, ok \in BOOLEAN : EmitSettle(e, ok)
    \/ Tick
    \/ \E ok \in BOOLEAN : SweepSettle(ok)
    \/ Advance
    \/ \E e \in Events : TestWebhook(e)
    \/ \E b \in BOOLEAN : SetEnabled(b)

HookApiSpec == HookInit /\ [][HookApiNext]_vars

RetryApiNext ==
    \/ \E e \in Events : Emit(e)
    \/ \E e \in Events : EmitBatch(e)
    \/ \E e \in Events, ok \in BOOLEAN : EmitSettle(e, ok)
    \/ Tick
    \/ \E ok \in BOOLEAN : SweepSettle(ok)
    \/ Advance
    \/ RetryFailedWebhooks
    \/ \E ok \in BOOLEAN : ManualSettle(ok)

RetryApiSpec == HookInit /\ [][RetryApiNext]_vars

\* sendWebhook calls for the item of e that have not settled
SendsInFlight(e) == sends[e].started - Len(sends[e].outcomes)
\* the outcomes of the retries of an event, the immediate attempt left out
RetryOutcomes(s) == SubSeq(s.outcomes, 2, Len(s.outcomes))
\* the retries among them that succeeded, each counted in totalRetried
RECURSIVE CountOk(_)
CountOk(s) == IF s = <<>> THEN 0
              ELSE (IF Head(s) = "ok" THEN 1 ELSE 0) + CountOk(Tail(s))

\* C25: testWebhook returns true exactly when the test event was delivered
\* successfully, and false when the delivery failed.
C25_TestReportsDelivery ==
    testCall.pc = "returned" =>
       (testCall.result <=> sends[testCall.event].outcomes = <<"ok">>)

\* C26: while the flag of setEnabled is off, an emit performs no HTTP
\* delivery, so that it adds nothing to the retry queue; isEnabled() is true
\* exactly when the flag is on and a webhook URL is configured.
C26_DisabledEmitsNothing ==
    [][/\ \A e \in Events :
             (~enabled /\ emits[e] = "unused" /\ emits'[e] # "unused") =>
                /\ sends'[e] = sends[e]
                /\ emits'[e] = "resolved"
       /\ IsEnabled <=> (enabled = TRUE /\ webhookUrl = TRUE)]_vars

\* C27: however the passes of the timer and of retryFailedWebhooks
\* interleave, no item has two delivery attempts in flight, no item is sent
\* again after its removal from the queue, attempts never exceeds maxRetries
\* and totalRetried grows by at most one per queued item.
C27_PassesDoNotInterfere ==
    [][\A e \in Events :
          /\ SendsInFlight(e)' <= 1
          /\ Removed(e) => sends'[e].started = sends[e].started
          /\ items'[e].attempts <= maxRetries
          /\ CountOk(RetryOutcomes(sends'[e])) <= 1]_vars


\* ======================================================================
\* Part 6: the providers' generationTime
\* ======================================================================
\* The registered provider objects live as long as the imageGenerationService
\* singleton, so every call on a provider shares its field startTime.
UnusedCalls == {c \in ProviderCalls : genCall[c].pc = "unused"}

\* provider.generateImage(...): this.startTime = Date.now(), then the remote
\* generation is awaited.  begun is the start of this call.
ProviderGenerateImage(c, p) ==
    /\ UnusedCalls # {}
    /\ c = CHOOSE x \in UnusedCalls : \A y \in UnusedCalls : x <= y
    /\ startTime' = [startTime EXCEPT ![p] = now]
    /\ genCall' = [genCall EXCEPT ![c] =
                      [pc |-> "generating", provider |-> p, begun |-> now,
                       ended |-> 0, generationTime |-> 0]]
    /\ UNCHANGED <<now, imagesGenerated, saveCall>>
    /\ UNCHANGED <<appVars, selVars, hookVars, gwcVars, apiVars>>

\* The remote generation settles: enhanceForCommerce awaits
\* processImageForCommerce, or generateImage rethrows the error.
ProviderRemoteSettle(c, ok) ==
    /\ genCall[c].pc = "generating"
    /\ genCall' = [genCall EXCEPT ![c].pc = IF ok THEN "enhancing" ELSE "rejected"]
    /\ UNCHANGED <<now, startTime, imagesGenerated, saveCall>>
    /\ UNCHANGED <<appVars, selVars, hookVars, gwcVars, apiVars>>

\* generationTime: Date.now() - this.startTime
GenerationTime(p) == now - startTime[p]

\* processImageForCommerce settles and enhanceForCommerce builds the output
\* with metadata.generationTime; generateImage returns it.
ProviderEnhanced(c) ==
    /\ genCall[c].pc = "enhancing"
    /\ genCall' = [genCall EXCEPT
                      ![c].pc = "returned",
                      ![c].ended = now,
                      ![c].generationTime = GenerationTime(genCall[c].provider)]
    /\ UNCHANGED <<now, startTime, imagesGenerated, saveCall>>
    /\ UNCHANGED <<appVars, selVars, hookVars, gwcVars, apiVars>>

\* Time passes.
ClockTick ==
    /\ now < MaxClock
    /\ now' = now + 1
    /\ UNCHANGED <<startTime, genCall, imagesGenerated, saveCall>>
    /\ UNCHANGED <<appVars, selVars, hookVars, gwcVars, apiVars>>

TimingNext ==
    \/ \E c \in ProviderCalls, p \in ProviderNames : ProviderGenerateImage(c, p)
    \/ \E c \in ProviderCalls, ok \in BOOLEAN : ProviderRemoteSettle(c, ok)
    \/ \E c \in ProviderCalls : ProviderEnhanced(c)
    \/ ClockTick

\* The providers as registered by the ImageGenerationService constructor.
TimingInit == Init /\ firebaseEnabled = FALSE

TimingSpec == TimingInit /\ [][TimingNext]_vars

\* C28: metadata.generationTime of an output is the time that elapsed in the
\* generateImage call that produced it, also when calls on the same provider
\* instance overlap.
C28_GenerationTimeOfOwnCall ==
    \A c \in ProviderCalls :
       genCall[c].pc = "returned" =>
          genCall[c].generationTime = genCall[c].ended - genCall[c].begun

\* ======================================================================
\* Part 7: saveGeneratedImage and the user's image count
\* ======================================================================
\* saveGeneratedImage calls that have not settled
SavesInFlight == {c \in SaveIds : saveCall[c].pc \in {"storing", "querying", "updating"}}
UnusedSaves == {c \in SaveIds : saveCall[c].pc = "unused"}

\* processStyle calls saveGeneratedImage: the uploads to storage and the
\* addDoc of the image follow; each of the concurrencyLimit batch workers
\* has at most one call in flight.
SaveGeneratedImage(c) ==
    /\ UnusedSaves # {}
    /\ c = CHOOSE x \in UnusedSaves : \A y \in UnusedSaves : x <= y
    /\ Cardinality(SavesInFlight) < ConcurrencyLimit
    /\ saveCall' = [saveCall EXCEPT ![c].pc = "storing"]
    /\ UNCHANGED <<now, startTime, genCall, imagesGenerated>>
    /\ UNCHANGED <<appVars, selVars, hookVars, gwcVars, apiVars>>

\* The uploads and addDoc settle: getDocs(userQuery) is sent, or the catch
\* block returns null.
SaveStored(c, ok) ==
    /\ saveCall[c].pc = "storing"
    /\ saveCall' = [saveCall EXCEPT ![c].pc = IF ok THEN "querying" ELSE "failed"]
    /\ UNCHANGED <<now, startTime, genCall, imagesGenerated>>
    /\ UNCHANGED <<appVars, selVars, hookVars, gwcVars, apiVars>>

\* getDocs settles with the user's document as it is now: updateDoc is sent
\* with userDoc.data().imagesGenerated + 1.
SaveQueried(c, ok) ==
    /\ saveCall[c].pc = "querying"
    /\ saveCall' = [saveCall EXCEPT
                       ![c].pc = IF ok THEN "updating" ELSE "failed",
                       ![c].read = IF ok THEN imagesGenerated ELSE @]
    /\ UNCHANGED <<now, startTime, genCall, imagesGenerated>>
    /\ UNCHANGED <<appVars, selVars, hookVars, gwcVars, apiVars>>

\* updateDoc(..., { imagesGenerated: userDoc.data().imagesGenerated + 1 })
UpdatedCount(read) == read + 1

\* updateDoc settles: the field is overwritten and the call returns the
\* GeneratedImage, or the catch block returns null.
SaveUpdated(c, ok) ==
    /\ saveCall[c].pc = "updating"
    /\ saveCall' = [saveCall EXCEPT ![c].pc = IF ok THEN "saved" ELSE "failed"]
    /\ imagesGenerated' = IF ok THEN UpdatedCount(saveCall[c].read)
                          ELSE imagesGenerated
    /\ UNCHANGED <<now, startTime, genCall>>
    /\ UNCHANGED <<appVars, selVars, hookVars, gwcVars, apiVars>>

SaveNext ==
    \/ \E c \in SaveIds : SaveGeneratedImage(c)
    \/ \E c \in SaveIds, ok \in BOOLEAN : SaveStored(c, ok)
    \/ \E c \in SaveIds, ok \in BOOLEAN : SaveQueried(c, ok)
    \/ \E c \in SaveIds, ok \in BOOLEAN : SaveUpdated(c, ok)

\* Firebase is configured and the user's session document exists.
SaveInit == Init /\ firebaseEnabled = TRUE

SaveSpec == SaveInit /\ [][SaveNext]_vars

\* the calls that returned a GeneratedImage
Saved == {c \in SaveIds : saveCall[c].pc = "saved"}

\* C30: after k successful saveGeneratedImage calls for the user, also when
\* two of them ran concurrently, imagesGenerated has grown by exactly k.
C30_CountsEverySave ==
    SavesInFlight = {} => imagesGenerated = Cardinality(Saved)


\* ----------------------------------------------------------------------
\* C29: selectOptimalProvider returns only a provider whose isAvailable()
\* resolved true during that call; SeeDream is never returned before
\* initializeFal has completed with a client, and the client stays set, so
\* the generateImage call that follows does not find `!this.fal`.
C29_ReturnsOnlyAvailable ==
    [][/\ (selPc # "returned" /\ selPc' = "returned") =>
             /\ selResult' = "gemini" => GeminiAvailable
             /\ selResult' = "seedream" =>
                   (SeedreamAvailable /\ falPc = "done" /\ falClient)
       /\ (selPc' = "returned" /\ selResult' = "seedream") => falClient']_vars

\* A party theme was selected while the fal.ai key was set and the import
\* of the client still under way: Gemini was returned.
C29_Witness ==
    /\ selPc = "returned"
    /\ selResult = "gemini"
    /\ isPartyTheme
    /\ falKey
    /\ falPc = "importing"

====
